---- MODULE Spec2Model ----
(***************************************************************************)
(* Position accounting of the clearing house                               *)
(* (programs/clearing_house/src/controller/position.rs).                   *)
(*                                                                         *)
(* The five engine functions increase, increase_with_base_asset_amount,    *)
(* reduce, reduce_with_base_asset_amount and close are modelled as         *)
(* operators that follow the Rust statement by statement: every `?` is an  *)
(* early return that keeps the writes made so far through the `&mut`       *)
(* references.  i128 / u128 are scaled down to the ranges                  *)
(* IntMin..IntMax and 0..UMax.  The AMM, the casts and the PnL and         *)
(* collateral helpers live outside position.rs and are modelled from       *)
(* their interface.                                                        *)
(***************************************************************************)
EXTENDS Integers, FiniteSets, Sequences, TLC

\* ----------------------------------------------------------------------
\* Bounds
\* ----------------------------------------------------------------------
\* largest value of the signed integer type (i128::MAX, scaled)
IntMax == 2

IntMin == -IntMax - 1

UMax == 2 * IntMax + 1

\* the users of the model, each holding one MarketPosition in the market
Users == {1}

\* number of traders holding a position in the one market of SpecTraders
MaxTraders == 2

Traders == 1..MaxTraders

\* capacity of a user's position collection (UserPositions.positions)
MaxPositions == 2

\* the slots of the collection, indexed as the Rust array is
SlotIndexes == 0..(MaxPositions - 1)

\* largest market index a caller asks a slot for
MaxMarketIndex == 1

MarketIndexes == 0..MaxMarketIndex

I128 == IntMin..IntMax

U128 == 0..UMax

\* IsI128 of unchecked arithmetic: every sum is taken as it comes
IsI128_unchecked(x) == TRUE

IsI128(x) == x >= IntMin /\ x <= IntMax

IsU128(x) == x >= 0 /\ x <= UMax

Abs(x) == IF x < 0 THEN -x ELSE x

\* ----------------------------------------------------------------------
\* Collaborators of the engine (math::casting, math::pnl,
\* math::collateral, controller::amm)
\* ----------------------------------------------------------------------
\* cast_to_i128 / cast::<u128, i128>: succeeds iff the value fits
cast_ok(x) == IsI128(x)

SwapAdd == "Add"

SwapRemove == "Remove"

Long == "Long"

Short == "Short"

Directions == {Long, Short}

\* the amounts a caller passes: every u128 up to the first that no longer
\* fits the signed type
Amounts == 0..(IntMax + 1)

\* What one AMM swap can answer: an error, or an amount (the magnitude of
\* the base delta for swap_quote_asset, the quote amount for
\* swap_base_asset).  Prices are outside the engine, so every amount is
\* possible whatever the request.
AmmErr == -1

SwapOutcomes == {AmmErr} \cup Amounts

\* swap_quote_asset: Add hands base to the trader (delta >= 0), Remove
\* takes it (delta <= 0); the reserve moves against the trader.
swap_quote_asset(amm, quote_asset_amount, swap_direction, out) ==
    LET delta == IF swap_direction = SwapAdd THEN out ELSE -out IN
    IF out = AmmErr \/ ~IsI128(delta)
    THEN [ok |-> FALSE, amm |-> amm, value |-> 0]
    ELSE     [ok |-> TRUE,
             amm |-> [amm EXCEPT !.base_asset_reserve = @ - delta],
             value |-> delta]

\* swap_base_asset: Remove takes base_asset_amount out of the reserve,
\* Add puts it in; answers the quote amount of the swap.
swap_base_asset(amm, base_asset_amount, swap_direction, out) ==
    IF out = AmmErr
    THEN [ok |-> FALSE, amm |-> amm, value |-> 0]
    ELSE [ok |-> TRUE,
          amm |-> [amm EXCEPT !.base_asset_reserve =
                      IF swap_direction = SwapAdd THEN @ + base_asset_amount
                                                  ELSE @ - base_asset_amount],
          value |-> out]

\* calculate_pnl(exit_value, entry_value, swap_direction_to_close)
calculate_pnl(exit_value, entry_value, swap_direction) ==
    IF ~cast_ok(exit_value) \/ ~cast_ok(entry_value)
    THEN [ok |-> FALSE, err |-> "CastFailure", value |-> 0]
    ELSE LET pnl == IF swap_direction = SwapAdd THEN exit_value - entry_value
                                                ELSE entry_value - exit_value
         IN [ok |-> IsI128(pnl), err |-> "ArithmeticOverflow", value |-> pnl]

\* calculate_updated_collateral(collateral, pnl): signed sum, checked
calculate_updated_collateral(collateral, pnl) ==
    [ok |-> IsI128(collateral + pnl), value |-> collateral + pnl]

\* ----------------------------------------------------------------------
\* Results of an engine call: what the caller sees through its `&mut`
\* references after the call returned, and the returned value.
\* ----------------------------------------------------------------------
\* returned values are tuples: <<>> for (), <<delta>> for an i128,
\* <<base_asset_value, base_asset_amount>> for close; an Err carries none
Unit == <<>>

NoValue == <<>>

\* the error kinds of a ClearingHouseResult: math_error!() of a checked
\* operation, the Err of cast / cast_to_i128, the Err propagated from the AMM
NoError == "none"

ArithmeticOverflow == "ArithmeticOverflow"

CastFailure == "CastFailure"

AmmError == "AmmError"

Done(market, market_position, collateral, ret) ==
    [ok |-> TRUE, err |-> NoError, market |-> market,
     market_position |-> market_position, collateral |-> collateral, ret |-> ret]

\* an early return with the given error kind
FailWith(err, market, market_position, collateral) ==
    [ok |-> FALSE, err |-> err, market |-> market,
     market_position |-> market_position, collateral |-> collateral,
     ret |-> NoValue]

\* Fail with the `?` lost: the call goes on and answers Ok
Fail_returns_ok(market, market_position, collateral) ==
    Done(market, market_position, collateral, NoValue)

\* .ok_or_else(math_error!())?
Fail(market, market_position, collateral) ==
    FailWith(ArithmeticOverflow, market, market_position, collateral)

\* add_to_bucket with the else branch lost: a position that is not long
\* reaches no bucket
add_to_bucket_forgets_short(market, market_position, delta) ==
    IF market_position.base_asset_amount > 0
    THEN [market EXCEPT !.base_asset_amount_long = @ + delta]
    ELSE market

\* add_to_bucket with the two branches exchanged
add_to_bucket_exchanged(market, market_position, delta) ==
    IF market_position.base_asset_amount > 0
    THEN [market EXCEPT !.base_asset_amount_short = @ + delta]
    ELSE [market EXCEPT !.base_asset_amount_long = @ + delta]

\* the long/short bucket update shared by increase and reduce
\* (position.rs 127-137, 193-203, 245-255, 325-335)
add_to_bucket(market, market_position, delta) ==
    IF market_position.base_asset_amount > 0
    THEN [market EXCEPT !.base_asset_amount_long = @ + delta]
    ELSE [market EXCEPT !.base_asset_amount_short = @ + delta]

bucket_ok(market, market_position, delta) ==
    IF market_position.base_asset_amount > 0
    THEN IsI128(market.base_asset_amount_long + delta)
    ELSE IsI128(market.base_asset_amount_short + delta)

\* funding_rate_for that takes the long rate whatever the direction
funding_rate_for_long_only(direction, market) ==
    market.amm.cumulative_funding_rate_long

\* the opening branch of the two increase functions (86-97, 153-164)
funding_rate_for(direction, market) ==
    IF direction = Long THEN market.amm.cumulative_funding_rate_long
                        ELSE market.amm.cumulative_funding_rate_short

\* ----------------------------------------------------------------------
\* increase (position.rs 75-140)
\* ----------------------------------------------------------------------
increase_nonzero(direction, quote_asset_amount, market, market_position, collateral, out) ==
    LET opening == market_position.base_asset_amount = 0
        mp1 == IF opening
               THEN [market_position EXCEPT !.last_cumulative_funding_rate =
                                                funding_rate_for(direction, market)]
               ELSE market_position
    IN
    IF opening /\ ~IsU128(market.open_interest + 1) THEN Fail(market, mp1, collateral)
    ELSE
    LET m1 == IF opening THEN [market EXCEPT !.open_interest = @ + 1] ELSE market IN
    IF ~IsU128(mp1.quote_asset_amount + quote_asset_amount) THEN Fail(m1, mp1, collateral)
    ELSE
    LET mp2 == [mp1 EXCEPT !.quote_asset_amount = @ + quote_asset_amount]
        swap_direction == IF direction = Long THEN SwapAdd ELSE SwapRemove
        sw == swap_quote_asset(m1.amm, quote_asset_amount, swap_direction, out)
    IN
    IF ~sw.ok THEN FailWith(AmmError, m1, mp2, collateral)
    ELSE
    LET base_asset_acquired == sw.value
        m2 == [m1 EXCEPT !.amm = sw.amm]
    IN
    IF ~IsI128(mp2.base_asset_amount + base_asset_acquired) THEN Fail(m2, mp2, collateral)
    ELSE
    LET mp3 == [mp2 EXCEPT !.base_asset_amount = @ + base_asset_acquired] IN
    IF ~IsI128(m2.base_asset_amount + base_asset_acquired) THEN Fail(m2, mp3, collateral)
    ELSE
    LET m3 == [m2 EXCEPT !.base_asset_amount = @ + base_asset_acquired] IN
    IF ~bucket_ok(m3, mp3, base_asset_acquired) THEN Fail(m3, mp3, collateral)
    ELSE Done(add_to_bucket(m3, mp3, base_asset_acquired), mp3, collateral,
              <<base_asset_acquired>>)

\* increase without the early return of a zero request
increase_without_zero_return(direction, quote_asset_amount, market, market_position, collateral, out) ==
    increase_nonzero(direction, quote_asset_amount, market, market_position,
                     collateral, out)

increase(direction, quote_asset_amount, market, market_position, collateral, out) ==
    IF quote_asset_amount = 0 THEN Done(market, market_position, collateral, <<0>>)
    ELSE increase_nonzero(direction, quote_asset_amount, market, market_position,
                          collateral, out)

\* ----------------------------------------------------------------------
\* increase_with_base_asset_amount (position.rs 142-206)
\* ----------------------------------------------------------------------
increase_with_base_nonzero(direction, base_asset_amount, market, market_position, collateral, out) ==
    LET opening == market_position.base_asset_amount = 0
        mp1 == IF opening
               THEN [market_position EXCEPT !.last_cumulative_funding_rate =
                                                funding_rate_for(direction, market)]
               ELSE market_position
    IN
    IF opening /\ ~IsU128(market.open_interest + 1) THEN Fail(market, mp1, collateral)
    ELSE
    LET m1 == IF opening THEN [market EXCEPT !.open_interest = @ + 1] ELSE market
        swap_direction == IF direction = Long THEN SwapRemove ELSE SwapAdd
        sw == swap_base_asset(m1.amm, base_asset_amount, swap_direction, out)
    IN
    IF ~sw.ok THEN FailWith(AmmError, m1, mp1, collateral)
    ELSE
    LET quote_asset_swapped == sw.value
        m2 == [m1 EXCEPT !.amm = sw.amm]
    IN
    IF ~IsU128(mp1.quote_asset_amount + quote_asset_swapped) THEN Fail(m2, mp1, collateral)
    ELSE
    LET mp2 == [mp1 EXCEPT !.quote_asset_amount = @ + quote_asset_swapped] IN
    IF ~cast_ok(base_asset_amount) THEN FailWith(CastFailure, m2, mp2, collateral)
    ELSE
    LET delta == IF direction = Long THEN base_asset_amount ELSE -base_asset_amount IN
    IF ~IsI128(mp2.base_asset_amount + delta) THEN Fail(m2, mp2, collateral)
    ELSE
    LET mp3 == [mp2 EXCEPT !.base_asset_amount = @ + delta] IN
    IF ~IsI128(m2.base_asset_amount + delta) THEN Fail(m2, mp3, collateral)
    ELSE
    LET m3 == [m2 EXCEPT !.base_asset_amount = @ + delta] IN
    IF ~bucket_ok(m3, mp3, delta) THEN Fail(m3, mp3, collateral)
    ELSE Done(add_to_bucket(m3, mp3, delta), mp3, collateral, Unit)

\* increase_with_base_asset_amount without lines 188-191: the position
\* grows, the market's net amount does not
increase_with_base_unmirrored(direction, base_asset_amount, market, market_position, collateral, out) ==
    IF base_asset_amount = 0 THEN Done(market, market_position, collateral, Unit)
    ELSE LET r == increase_with_base_nonzero(direction, base_asset_amount, market,
                                             market_position, collateral, out)
         IN [r EXCEPT !.market.base_asset_amount = market.base_asset_amount]

increase_with_base_asset_amount(direction, base_asset_amount, market, market_position, collateral, out) ==
    IF base_asset_amount = 0 THEN Done(market, market_position, collateral, Unit)
    ELSE increase_with_base_nonzero(direction, base_asset_amount, market,
                                    market_position, collateral, out)

\* closed_count that never sees a position reach zero
closed_count_never(market_position) == 0

\* cast(market_position.base_asset_amount == 0): what a reduce takes off
\* open_interest (position.rs 238, 318)
closed_count(market_position) ==
    IF market_position.base_asset_amount = 0 THEN 1 ELSE 0

\* quote_closed with the division rounded up
quote_closed_rounded_up(quote_asset_amount, base_asset_amount_change, base_asset_amount_before) ==
    (quote_asset_amount * base_asset_amount_change + Abs(base_asset_amount_before) - 1)
        \div Abs(base_asset_amount_before)

\* quote_closed taking the share of the position that stays open
quote_closed_of_remainder(quote_asset_amount, base_asset_amount_change, base_asset_amount_before) ==
    (quote_asset_amount * Abs(Abs(base_asset_amount_before) - base_asset_amount_change))
        \div Abs(base_asset_amount_before)

\* quote_closed clamped to the cost basis held
quote_closed_clamped(quote_asset_amount, base_asset_amount_change, base_asset_amount_before) ==
    LET share == (quote_asset_amount * base_asset_amount_change)
                     \div Abs(base_asset_amount_before)
    IN IF share > quote_asset_amount THEN quote_asset_amount ELSE share

\* the cost basis closed by a reduce (position.rs 262-267, 342-347);
\* the checked_mul / checked_div guards are tested by the caller
quote_closed(quote_asset_amount, base_asset_amount_change, base_asset_amount_before) ==
    (quote_asset_amount * base_asset_amount_change) \div Abs(base_asset_amount_before)

\* the realized PnL of reduce (position.rs 274-282)
reduce_pnl(market_position, quote_asset_swap_amount, initial_quote_asset_amount_closed) ==
    IF market_position.base_asset_amount > 0
    THEN quote_asset_swap_amount - initial_quote_asset_amount_closed
    ELSE initial_quote_asset_amount_closed - quote_asset_swap_amount

\* the realized PnL of reduce_with_base_asset_amount (position.rs 354-362)
reduce_with_base_pnl(direction, quote_asset_swapped, initial_quote_asset_amount_closed) ==
    IF direction = Short
    THEN quote_asset_swapped - initial_quote_asset_amount_closed
    ELSE initial_quote_asset_amount_closed - quote_asset_swapped

\* ----------------------------------------------------------------------
\* reduce (position.rs 208-287)
\* ----------------------------------------------------------------------
reduce(direction, quote_asset_swap_amount, market, market_position, collateral, out) ==
    LET swap_direction == IF direction = Long THEN SwapAdd ELSE SwapRemove
        sw == swap_quote_asset(market.amm, quote_asset_swap_amount, swap_direction, out)
    IN
    IF ~sw.ok THEN FailWith(AmmError, market, market_position, collateral)
    ELSE
    LET base_asset_swapped == sw.value
        m1 == [market EXCEPT !.amm = sw.amm]
        base_asset_amount_before == market_position.base_asset_amount
    IN
    IF ~IsI128(base_asset_amount_before + base_asset_swapped)
    THEN Fail(m1, market_position, collateral)
    ELSE
    LET mp1 == [market_position EXCEPT !.base_asset_amount = @ + base_asset_swapped]
        closing == closed_count(mp1)
    IN
    IF ~IsU128(m1.open_interest - closing) THEN Fail(m1, mp1, collateral)
    ELSE
    LET m2 == [m1 EXCEPT !.open_interest = @ - closing] IN
    IF ~IsI128(m2.base_asset_amount + base_asset_swapped) THEN Fail(m2, mp1, collateral)
    ELSE
    LET m3 == [m2 EXCEPT !.base_asset_amount = @ + base_asset_swapped] IN
    IF ~bucket_ok(m3, mp1, base_asset_swapped) THEN Fail(m3, mp1, collateral)
    ELSE
    LET m4 == add_to_bucket(m3, mp1, base_asset_swapped) IN
    IF ~IsI128(base_asset_amount_before - mp1.base_asset_amount)
    THEN Fail(m4, mp1, collateral)
    ELSE
    LET base_asset_amount_change ==
            Abs(base_asset_amount_before - mp1.base_asset_amount)
    IN
    IF ~IsU128(mp1.quote_asset_amount * base_asset_amount_change)
       \/ base_asset_amount_before = 0
    THEN Fail(m4, mp1, collateral)
    ELSE
    LET initial_quote_asset_amount_closed ==
            quote_closed(mp1.quote_asset_amount, base_asset_amount_change,
                         base_asset_amount_before)
    IN
    IF ~IsU128(mp1.quote_asset_amount - initial_quote_asset_amount_closed)
    THEN Fail(m4, mp1, collateral)
    ELSE
    LET mp2 == [mp1 EXCEPT !.quote_asset_amount = @ - initial_quote_asset_amount_closed] IN
    IF ~cast_ok(quote_asset_swap_amount) \/ ~cast_ok(initial_quote_asset_amount_closed)
    THEN FailWith(CastFailure, m4, mp2, collateral)
    ELSE
    LET pnl == reduce_pnl(mp2, quote_asset_swap_amount,
                          initial_quote_asset_amount_closed)
    IN
    IF ~IsI128(pnl) THEN Fail(m4, mp2, collateral)
    ELSE
    LET upd == calculate_updated_collateral(collateral, pnl) IN
    IF ~upd.ok THEN Fail(m4, mp2, collateral)
    ELSE Done(m4, mp2, upd.value, <<base_asset_swapped>>)

\* ----------------------------------------------------------------------
\* reduce_with_base_asset_amount (position.rs 289-367)
\* ----------------------------------------------------------------------
reduce_with_base_asset_amount(direction, base_asset_amount, market, market_position, collateral, out) ==
    LET swap_direction == IF direction = Long THEN SwapRemove ELSE SwapAdd
        sw == swap_base_asset(market.amm, base_asset_amount, swap_direction, out)
    IN
    IF ~sw.ok THEN FailWith(AmmError, market, market_position, collateral)
    ELSE
    LET quote_asset_swapped == sw.value
        m1 == [market EXCEPT !.amm = sw.amm]
    IN
    IF ~cast_ok(base_asset_amount) THEN FailWith(CastFailure, m1, market_position, collateral)
    ELSE
    LET delta == IF direction = Long THEN base_asset_amount ELSE -base_asset_amount
        base_asset_amount_before == market_position.base_asset_amount
    IN
    IF ~IsI128(base_asset_amount_before + delta) THEN Fail(m1, market_position, collateral)
    ELSE
    LET mp1 == [market_position EXCEPT !.base_asset_amount = @ + delta]
        closing == closed_count(mp1)
    IN
    IF ~IsU128(m1.open_interest - closing) THEN Fail(m1, mp1, collateral)
    ELSE
    LET m2 == [m1 EXCEPT !.open_interest = @ - closing] IN
    IF ~IsI128(m2.base_asset_amount + delta) THEN Fail(m2, mp1, collateral)
    ELSE
    LET m3 == [m2 EXCEPT !.base_asset_amount = @ + delta] IN
    IF ~bucket_ok(m3, mp1, delta) THEN Fail(m3, mp1, collateral)
    ELSE
    LET m4 == add_to_bucket(m3, mp1, delta) IN
    IF ~IsI128(base_asset_amount_before - mp1.base_asset_amount)
    THEN Fail(m4, mp1, collateral)
    ELSE
    LET base_asset_amount_change ==
            Abs(base_asset_amount_before - mp1.base_asset_amount)
    IN
    IF ~IsU128(mp1.quote_asset_amount * base_asset_amount_change)
       \/ base_asset_amount_before = 0
    THEN Fail(m4, mp1, collateral)
    ELSE
    LET initial_quote_asset_amount_closed ==
            quote_closed(mp1.quote_asset_amount, base_asset_amount_change,
                         base_asset_amount_before)
    IN
    IF ~IsU128(mp1.quote_asset_amount - initial_quote_asset_amount_closed)
    THEN Fail(m4, mp1, collateral)
    ELSE
    LET mp2 == [mp1 EXCEPT !.quote_asset_amount = @ - initial_quote_asset_amount_closed] IN
    IF ~cast_ok(quote_asset_swapped) \/ ~cast_ok(initial_quote_asset_amount_closed)
    THEN FailWith(CastFailure, m4, mp2, collateral)
    ELSE
    LET pnl == reduce_with_base_pnl(direction, quote_asset_swapped,
                                    initial_quote_asset_amount_closed)
    IN
    IF ~IsI128(pnl) THEN Fail(m4, mp2, collateral)
    ELSE
    LET upd == calculate_updated_collateral(collateral, pnl) IN
    IF ~upd.ok THEN Fail(m4, mp2, collateral)
    ELSE Done(m4, mp2, upd.value, Unit)

\* ----------------------------------------------------------------------
\* close (position.rs 369-430)
\* ----------------------------------------------------------------------
\* reset_funding that leaves the timestamp
reset_funding_keeps_ts(market_position) ==
    [market_position EXCEPT !.last_cumulative_funding_rate = 0]

\* position.rs 399-400
reset_funding(market_position) ==
    [market_position EXCEPT !.last_cumulative_funding_rate = 0,
                            !.last_funding_rate_ts = 0]

\* the whole of close but its last write, base_asset_amount = 0
close_keeps_base(market, market_position, collateral, out) ==
    LET r == IF market_position.base_asset_amount = 0
             THEN Done(market, market_position, collateral, <<0, 0>>)
             ELSE LET swap_direction == IF market_position.base_asset_amount > 0
                                        THEN SwapAdd ELSE SwapRemove
                      sw == swap_base_asset(market.amm,
                                            Abs(market_position.base_asset_amount),
                                            swap_direction, out)
                      pnl == calculate_pnl(sw.value, market_position.quote_asset_amount,
                                           swap_direction)
                      upd == calculate_updated_collateral(collateral, pnl.value)
                  IN IF ~sw.ok \/ ~pnl.ok \/ ~upd.ok \/ market.open_interest = 0
                     THEN Fail(market, market_position, collateral)
                     ELSE Done([market EXCEPT !.amm = sw.amm, !.open_interest = @ - 1],
                               [reset_funding(market_position) EXCEPT
                                    !.quote_asset_amount = 0],
                               upd.value,
                               <<sw.value, market_position.base_asset_amount>>)
    IN r

close(market, market_position, collateral, out) ==
    IF market_position.base_asset_amount = 0
    THEN Done(market, market_position, collateral, <<0, 0>>)
    ELSE
    LET swap_direction == IF market_position.base_asset_amount > 0
                          THEN SwapAdd ELSE SwapRemove
        sw == swap_base_asset(market.amm, Abs(market_position.base_asset_amount),
                              swap_direction, out)
    IN
    IF ~sw.ok THEN FailWith(AmmError, market, market_position, collateral)
    ELSE
    LET base_asset_value == sw.value
        m1 == [market EXCEPT !.amm = sw.amm]
        pnl == calculate_pnl(base_asset_value, market_position.quote_asset_amount,
                             swap_direction)
    IN
    IF ~pnl.ok THEN FailWith(pnl.err, m1, market_position, collateral)
    ELSE
    LET upd == calculate_updated_collateral(collateral, pnl.value) IN
    IF ~upd.ok THEN Fail(m1, market_position, collateral)
    ELSE
    LET mp1 == reset_funding(market_position) IN
    IF ~IsU128(m1.open_interest - 1) THEN Fail(m1, mp1, upd.value)
    ELSE
    LET m2 == [m1 EXCEPT !.open_interest = @ - 1]
        mp2 == [mp1 EXCEPT !.quote_asset_amount = 0]
    IN
    IF ~IsI128(m2.base_asset_amount - mp2.base_asset_amount) THEN Fail(m2, mp2, upd.value)
    ELSE
    LET m3 == [m2 EXCEPT !.base_asset_amount = @ - mp2.base_asset_amount] IN
    IF ~bucket_ok(m3, mp2, -mp2.base_asset_amount) THEN Fail(m3, mp2, upd.value)
    ELSE
    LET m4 == add_to_bucket(m3, mp2, -mp2.base_asset_amount)
        base_asset_amount == mp2.base_asset_amount
        mp3 == [mp2 EXCEPT !.base_asset_amount = 0]
    IN Done(m4, mp3, upd.value, <<base_asset_value, base_asset_amount>>)

\* ----------------------------------------------------------------------
\* add_new_position (position.rs 28-58)
\* ----------------------------------------------------------------------
\* a slot as add_new_position leaves it (position.rs 38-53)
ZeroPosition ==
    [market_index |-> 0, base_asset_amount |-> 0, quote_asset_amount |-> 0,
     last_cumulative_funding_rate |-> 0, last_funding_rate_ts |-> 0,
     open_orders |-> 0]

\* MarketPosition::is_available: the slot is flat
is_available(market_position) == market_position.base_asset_amount = 0

\* add_new_position taking the last available slot
add_new_position_from_the_end(positions_of_user, market_index) ==
    LET available == {i \in SlotIndexes : is_available(positions_of_user[i])} IN
    IF available = {}
    THEN [ok |-> FALSE, err |-> "MaxNumberOfPositions",
          user_positions |-> positions_of_user, ret |-> NoValue]
    ELSE LET new_position_index == CHOOSE i \in available : \A j \in available : i >= j
         IN [ok |-> TRUE, err |-> "none",
             user_positions |->
                 [positions_of_user EXCEPT ![new_position_index] =
                      [ZeroPosition EXCEPT !.market_index = market_index]],
             ret |-> <<new_position_index>>]

\* iter().position(is_available) is the lowest available index
add_new_position(positions_of_user, market_index) ==
    LET available == {i \in SlotIndexes : is_available(positions_of_user[i])} IN
    IF available = {}
    THEN [ok |-> FALSE, err |-> "MaxNumberOfPositions",
          user_positions |-> positions_of_user, ret |-> NoValue]
    ELSE LET new_position_index == CHOOSE i \in available : \A j \in available : i <= j
         IN [ok |-> TRUE, err |-> "none",
             user_positions |->
                 [positions_of_user EXCEPT ![new_position_index] =
                      [ZeroPosition EXCEPT !.market_index = market_index]],
             ret |-> <<new_position_index>>]

\* ----------------------------------------------------------------------
\* get_position_index (position.rs 60-73)
\* ----------------------------------------------------------------------
\* MarketPosition::is_for: the slot tracks the market
is_for(market_position, market_index) == market_position.market_index = market_index

get_position_index(positions_of_user, market_index) ==
    LET tracking == {i \in SlotIndexes : is_for(positions_of_user[i], market_index)} IN
    IF tracking = {}
    THEN [ok |-> FALSE, err |-> "UserHasNoPositionInMarket", ret |-> NoValue]
    ELSE LET position_index == CHOOSE i \in tracking : \A j \in tracking : i <= j
         IN [ok |-> TRUE, err |-> "none", ret |-> <<position_index>>]

\* ----------------------------------------------------------------------
\* State
\* ----------------------------------------------------------------------
VARIABLES
    market,      \* the Market account
    positions,   \* positions[u]: the MarketPosition of user u in the market
    collateral,  \* collateral[u]: User.collateral
    basis,       \* basis[u]: the cost-basis ledger of u's position (SpecBasis)
    user_positions, \* user_positions[u]: the UserPositions collection of u
                    \* (SpecSlots)
    markets         \* markets[mi]: the Market account of index mi (SpecSlots)

vars == <<market, positions, collateral, basis, user_positions, markets>>

\* the all-zero market; its AMM carries the two cumulative funding rates
ZeroMarket ==
    [amm |-> [cumulative_funding_rate_long |-> 1,
              cumulative_funding_rate_short |-> 2,
              base_asset_reserve |-> 0],
     base_asset_amount |-> 0, base_asset_amount_long |-> 0,
     base_asset_amount_short |-> 0, open_interest |-> 0]

\* The ledger of one position, kept beside the accounts: while the calls
\* made on the position are same-direction increases followed by reduces
\* that do not flip its sign, acc is the quote the increases accumulated
\* and closed the cost basis the reduces closed; any other call ends the
\* bookkeeping (phase "off").
FreshLedger == [phase |-> "inc", dir |-> "none", acc |-> 0, closed |-> 0, reduces |-> 0]

LedgerOff == [phase |-> "off", dir |-> "none", acc |-> 0, closed |-> 0, reduces |-> 0]

\* Every slot starts flat; its funding timestamp was stamped by an earlier
\* funding settlement, which is outside position.rs.
Init ==
    /\ market = ZeroMarket
    /\ positions = [u \in Users |-> [ZeroPosition EXCEPT !.last_funding_rate_ts = 1]]
    /\ collateral = [u \in Users |-> 0]
    /\ basis = [u \in Users |-> FreshLedger]
    /\ user_positions =
           [u \in Users |->
               [i \in SlotIndexes |-> [ZeroPosition EXCEPT !.last_funding_rate_ts = 1]]]
    /\ markets = [mi \in MarketIndexes |-> ZeroMarket]

\* The caller hands the engine the user's position, the user and the
\* market.  Ok commits the accounts as the engine left them; Err aborts the
\* enclosing transaction, and the accounts keep their contents.
Commit(u, r) ==
    /\ IF r.ok
       THEN /\ market' = r.market
            /\ positions' = [positions EXCEPT ![u] = r.market_position]
            /\ collateral' = [collateral EXCEPT ![u] = r.collateral]
       ELSE UNCHANGED <<market, positions, collateral>>
    /\ UNCHANGED <<user_positions, markets>>

Increase(u, direction, amount, out) ==
    /\ \E r \in {increase(direction, amount, market, positions[u], collateral[u], out)} :
           Commit(u, r)
    /\ UNCHANGED basis

IncreaseWithBase(u, direction, amount, out) ==
    /\ \E r \in {increase_with_base_asset_amount(direction, amount, market, positions[u],
                                                 collateral[u], out)} :
           Commit(u, r)
    /\ UNCHANGED basis

Reduce(u, direction, amount, out) ==
    /\ \E r \in {reduce(direction, amount, market, positions[u], collateral[u], out)} :
           Commit(u, r)
    /\ UNCHANGED basis

ReduceWithBase(u, direction, amount, out) ==
    /\ \E r \in {reduce_with_base_asset_amount(direction, amount, market, positions[u],
                                               collateral[u], out)} :
           Commit(u, r)
    /\ UNCHANGED basis

Close(u, out) ==
    /\ \E r \in {close(market, positions[u], collateral[u], out)} :
           Commit(u, r)
    /\ UNCHANGED basis

Next ==
    \/ \E u \in Users, d \in Directions, a \in Amounts, out \in SwapOutcomes :
           Increase(u, d, a, out)
    \/ \E u \in Users, d \in Directions, a \in Amounts, out \in SwapOutcomes :
           IncreaseWithBase(u, d, a, out)
    \/ \E u \in Users, d \in Directions, a \in Amounts, out \in SwapOutcomes :
           Reduce(u, d, a, out)
    \/ \E u \in Users, d \in Directions, a \in Amounts, out \in SwapOutcomes :
           ReduceWithBase(u, d, a, out)
    \/ \E u \in Users, out \in SwapOutcomes : Close(u, out)

Spec == Init /\ [][Next]_vars

\* ----------------------------------------------------------------------
\* The same calls with the cost-basis ledger kept
\* ----------------------------------------------------------------------
\* the accounts are as they were before the call
Untouched(u, r) ==
    /\ r.market = market
    /\ r.market_position = positions[u]
    /\ r.collateral = collateral[u]

\* the ledger of u after an increase in direction d that accumulated `added`
LedgerIncrease(u, d, added, r) ==
    IF ~r.ok \/ Untouched(u, r) \/ basis[u].phase = "off" THEN basis[u]
    ELSE IF basis[u].phase = "inc" /\ basis[u].dir \in {"none", d}
         THEN [basis[u] EXCEPT !.dir = d, !.acc = @ + added]
         ELSE LedgerOff

\* the ledger of u after a reduce: the cost basis closed is the share
\* |before - after| / |before| of the basis held, rounded down; reduces
\* counts (up to 2) the reduces that closed some of it
LedgerReduce(u, r) ==
    IF ~r.ok \/ Untouched(u, r) \/ basis[u].phase = "off" THEN basis[u]
    ELSE LET before == positions[u].base_asset_amount
             after == r.market_position.base_asset_amount
                share == (positions[u].quote_asset_amount * Abs(before - after))
                             \div Abs(before)
            IN IF before # 0 /\ before * after >= 0
               THEN [basis[u] EXCEPT
                        !.phase = "red",
                        !.closed = @ + share,
                        !.reduces = IF share > 0 /\ @ < 2 THEN @ + 1 ELSE @]
               ELSE LedgerOff

LedgerClose(u, r) ==
    IF ~r.ok \/ Untouched(u, r) THEN basis[u] ELSE LedgerOff

TrackedIncrease(u, direction, amount, out) ==
    \E r \in {increase(direction, amount, market, positions[u], collateral[u], out)} :
        /\ Commit(u, r)
        /\ basis' = [basis EXCEPT ![u] = LedgerIncrease(u, direction, amount, r)]

TrackedIncreaseWithBase(u, direction, amount, out) ==
    \E r \in {increase_with_base_asset_amount(direction, amount, market, positions[u],
                                              collateral[u], out)} :
        /\ Commit(u, r)
        /\ basis' = [basis EXCEPT ![u] = LedgerIncrease(u, direction, out, r)]

TrackedReduce(u, direction, amount, out) ==
    \E r \in {reduce(direction, amount, market, positions[u], collateral[u], out)} :
        /\ Commit(u, r)
        /\ basis' = [basis EXCEPT ![u] = LedgerReduce(u, r)]

TrackedReduceWithBase(u, direction, amount, out) ==
    \E r \in {reduce_with_base_asset_amount(direction, amount, market, positions[u],
                                            collateral[u], out)} :
        /\ Commit(u, r)
        /\ basis' = [basis EXCEPT ![u] = LedgerReduce(u, r)]

TrackedClose(u, out) ==
    \E r \in {close(market, positions[u], collateral[u], out)} :
        /\ Commit(u, r)
        /\ basis' = [basis EXCEPT ![u] = LedgerClose(u, r)]

NextBasis ==
    \/ \E u \in Users, d \in Directions, a \in Amounts, out \in SwapOutcomes :
           TrackedIncrease(u, d, a, out)
    \/ \E u \in Users, d \in Directions, a \in Amounts, out \in SwapOutcomes :
           TrackedIncreaseWithBase(u, d, a, out)
    \/ \E u \in Users, d \in Directions, a \in Amounts, out \in SwapOutcomes :
           TrackedReduce(u, d, a, out)
    \/ \E u \in Users, d \in Directions, a \in Amounts, out \in SwapOutcomes :
           TrackedReduceWithBase(u, d, a, out)
    \/ \E u \in Users, out \in SwapOutcomes : TrackedClose(u, out)

SpecBasis == Init /\ [][NextBasis]_vars

\* In the specifications with several positions (SpecTraders, SpecSlots) a
\* trade is of at most MaxSlotAmount, the AMM answers in kind, and a slot
\* is let to hold at most MaxSlotAmount of base and of cost basis: a trade
\* that would leave more is not made.
MaxSlotAmount == 1

SlotAmounts == 1..MaxSlotAmount

SlotOutcomes == {AmmErr} \cup SlotAmounts

WithinSlotBounds(r) ==
    r.ok => /\ Abs(r.market_position.base_asset_amount) <= MaxSlotAmount
            /\ r.market_position.quote_asset_amount <= MaxSlotAmount

\* ----------------------------------------------------------------------
\* Several traders, each with one position in the same market
\* ----------------------------------------------------------------------
InitTraders ==
    /\ market = ZeroMarket
    /\ positions = [u \in Traders |-> [ZeroPosition EXCEPT !.last_funding_rate_ts = 1]]
    /\ collateral = [u \in Traders |-> 0]
    /\ basis = [u \in Traders |-> FreshLedger]
    /\ user_positions =
           [u \in Users |->
               [i \in SlotIndexes |-> [ZeroPosition EXCEPT !.last_funding_rate_ts = 1]]]
    /\ markets = [mi \in MarketIndexes |-> ZeroMarket]

TraderIncrease(u, direction, amount, out) ==
    /\ \E r \in {increase(direction, amount, market, positions[u], collateral[u], out)} :
           WithinSlotBounds(r) /\ Commit(u, r)
    /\ UNCHANGED basis

TraderIncreaseWithBase(u, direction, amount, out) ==
    /\ \E r \in {increase_with_base_asset_amount(direction, amount, market, positions[u],
                                                 collateral[u], out)} :
           WithinSlotBounds(r) /\ Commit(u, r)
    /\ UNCHANGED basis

TraderReduce(u, direction, amount, out) ==
    /\ \E r \in {reduce(direction, amount, market, positions[u], collateral[u], out)} :
           WithinSlotBounds(r) /\ Commit(u, r)
    /\ UNCHANGED basis

TraderReduceWithBase(u, direction, amount, out) ==
    /\ \E r \in {reduce_with_base_asset_amount(direction, amount, market, positions[u],
                                               collateral[u], out)} :
           WithinSlotBounds(r) /\ Commit(u, r)
    /\ UNCHANGED basis

TraderClose(u, out) ==
    /\ \E r \in {close(market, positions[u], collateral[u], out)} :
           WithinSlotBounds(r) /\ Commit(u, r)
    /\ UNCHANGED basis

NextTraders ==
    \/ \E u \in Traders, d \in Directions, a \in SlotAmounts, out \in SlotOutcomes :
           TraderIncrease(u, d, a, out)
    \/ \E u \in Traders, d \in Directions, a \in SlotAmounts, out \in SlotOutcomes :
           TraderIncreaseWithBase(u, d, a, out)
    \/ \E u \in Traders, d \in Directions, a \in SlotAmounts, out \in SlotOutcomes :
           TraderReduce(u, d, a, out)
    \/ \E u \in Traders, d \in Directions, a \in SlotAmounts, out \in SlotOutcomes :
           TraderReduceWithBase(u, d, a, out)
    \/ \E u \in Traders, out \in SlotOutcomes : TraderClose(u, out)

SpecTraders == InitTraders /\ [][NextTraders]_vars

\* ----------------------------------------------------------------------
\* The slot manager and the engine on the slots of a user's collection
\* ----------------------------------------------------------------------
AddNewPosition(u, market_index) ==
    /\ \E r \in {add_new_position(user_positions[u], market_index)} :
           IF r.ok
           THEN user_positions' = [user_positions EXCEPT ![u] = r.user_positions]
           ELSE UNCHANGED user_positions
    /\ UNCHANGED <<market, markets, positions, collateral, basis>>

\* The caller of the engine looks the slot of the market up with
\* get_position_index and passes it with the user and the Market; without
\* a slot for the market nothing is called.  Err aborts.
HasSlot(u, market_index) == get_position_index(user_positions[u], market_index).ok

SlotOf(u, market_index) == get_position_index(user_positions[u], market_index).ret[1]

SlotCommit(u, market_index, r) ==
    /\ WithinSlotBounds(r)
    /\ IF r.ok
       THEN /\ markets' = [markets EXCEPT ![market_index] = r.market]
            /\ user_positions' =
                   [user_positions EXCEPT ![u][SlotOf(u, market_index)] = r.market_position]
            /\ collateral' = [collateral EXCEPT ![u] = r.collateral]
       ELSE UNCHANGED <<markets, user_positions, collateral>>
    /\ UNCHANGED <<market, positions, basis>>

SlotIncrease(u, market_index, direction, amount, out) ==
    IF ~HasSlot(u, market_index) THEN UNCHANGED vars
    ELSE \E r \in {increase(direction, amount, markets[market_index],
                            user_positions[u][SlotOf(u, market_index)],
                            collateral[u], out)} : SlotCommit(u, market_index, r)

SlotIncreaseWithBase(u, market_index, direction, amount, out) ==
    IF ~HasSlot(u, market_index) THEN UNCHANGED vars
    ELSE \E r \in {increase_with_base_asset_amount(
                        direction, amount, markets[market_index],
                        user_positions[u][SlotOf(u, market_index)],
                        collateral[u], out)} : SlotCommit(u, market_index, r)

SlotReduce(u, market_index, direction, amount, out) ==
    IF ~HasSlot(u, market_index) THEN UNCHANGED vars
    ELSE \E r \in {reduce(direction, amount, markets[market_index],
                          user_positions[u][SlotOf(u, market_index)],
                          collateral[u], out)} : SlotCommit(u, market_index, r)

SlotReduceWithBase(u, market_index, direction, amount, out) ==
    IF ~HasSlot(u, market_index) THEN UNCHANGED vars
    ELSE \E r \in {reduce_with_base_asset_amount(
                        direction, amount, markets[market_index],
                        user_positions[u][SlotOf(u, market_index)],
                        collateral[u], out)} : SlotCommit(u, market_index, r)

SlotClose(u, market_index, out) ==
    IF ~HasSlot(u, market_index) THEN UNCHANGED vars
    ELSE \E r \in {close(markets[market_index],
                         user_positions[u][SlotOf(u, market_index)],
                         collateral[u], out)} : SlotCommit(u, market_index, r)

NextSlots ==
    \/ \E u \in Users, mi \in MarketIndexes : AddNewPosition(u, mi)
    \/ \E u \in Users, mi \in MarketIndexes, d \in Directions, a \in SlotAmounts,
          out \in SlotOutcomes : SlotIncrease(u, mi, d, a, out)
    \/ \E u \in Users, mi \in MarketIndexes, d \in Directions, a \in SlotAmounts,
          out \in SlotOutcomes : SlotIncreaseWithBase(u, mi, d, a, out)
    \/ \E u \in Users, mi \in MarketIndexes, d \in Directions, a \in SlotAmounts,
          out \in SlotOutcomes : SlotReduce(u, mi, d, a, out)
    \/ \E u \in Users, mi \in MarketIndexes, d \in Directions, a \in SlotAmounts,
          out \in SlotOutcomes : SlotReduceWithBase(u, mi, d, a, out)
    \/ \E u \in Users, mi \in MarketIndexes, out \in SlotOutcomes : SlotClose(u, mi, out)

SpecSlots == Init /\ [][NextSlots]_vars

TypeOK ==
    /\ market.base_asset_amount \in I128
    /\ market.base_asset_amount_long \in I128
    /\ market.base_asset_amount_short \in I128
    /\ market.open_interest \in U128
    /\ \A u \in Users : /\ positions[u].base_asset_amount \in I128
                        /\ positions[u].quote_asset_amount \in U128
                        /\ collateral[u] \in I128

\* ----------------------------------------------------------------------
\* The engine calls a caller can make in the current state
\* ----------------------------------------------------------------------
CallIncrease(u, d, a, out) ==
    increase(d, a, market, positions[u], collateral[u], out)

CallIncreaseWithBase(u, d, a, out) ==
    increase_with_base_asset_amount(d, a, market, positions[u], collateral[u], out)

CallReduce(u, d, a, out) ==
    reduce(d, a, market, positions[u], collateral[u], out)

CallReduceWithBase(u, d, a, out) ==
    reduce_with_base_asset_amount(d, a, market, positions[u], collateral[u], out)

CallClose(u, out) ==
    close(market, positions[u], collateral[u], out)

\* every call the engine offers, on every input of the model
AllCalls(u) ==
    {CallIncrease(u, d, a, out) : d \in Directions, a \in Amounts, out \in SwapOutcomes}
    \cup {CallIncreaseWithBase(u, d, a, out) :
              d \in Directions, a \in Amounts, out \in SwapOutcomes}
    \cup {CallReduce(u, d, a, out) : d \in Directions, a \in Amounts, out \in SwapOutcomes}
    \cup {CallReduceWithBase(u, d, a, out) :
              d \in Directions, a \in Amounts, out \in SwapOutcomes}
    \cup {CallClose(u, out) : out \in SwapOutcomes}

NonFlat == {u \in Users : positions[u].base_asset_amount # 0}

\* ----------------------------------------------------------------------
\* C1: in every state reached by successful engine calls from the all-zero
\* market, the net base amount of the market is the sum of its long and
\* short buckets.
\* ----------------------------------------------------------------------
C1_NetIsLongPlusShort ==
    market.base_asset_amount =
        market.base_asset_amount_long + market.base_asset_amount_short

\* both buckets are in use and the net is not zero
C1_Witness ==
    /\ market.base_asset_amount_long # 0
    /\ market.base_asset_amount_short # 0
    /\ market.base_asset_amount # 0

\* ----------------------------------------------------------------------
\* C2: open_interest is the number of positions of the market whose
\* base_asset_amount is not zero (hence never negative).
\* ----------------------------------------------------------------------
C2_OpenInterestCountsNonFlat ==
    /\ market.open_interest >= 0
    /\ market.open_interest = Cardinality(NonFlat)

\* ----------------------------------------------------------------------
\* C3: a call that returns an error leaves every field of the Market, of
\* the MarketPosition and User.collateral as it was before the call.
\* ----------------------------------------------------------------------
C3_FailsAtomically ==
    \A u \in Users : \A r \in AllCalls(u) : ~r.ok => Untouched(u, r)

\* the two reduce calls on the same request
ReduceCalls(u) ==
    {CallReduce(u, d, a, out) : d \in Directions, a \in Amounts, out \in SwapOutcomes}
    \cup {CallReduceWithBase(u, d, a, out) :
              d \in Directions, a \in Amounts, out \in SwapOutcomes}

\* |before - after| of the position's base amount over a call
BaseChange(u, r) ==
    Abs(positions[u].base_asset_amount - r.market_position.base_asset_amount)

\* ----------------------------------------------------------------------
\* C4: a successful reduce (either variant) of a non-flat position closes
\* the cost basis floor(quote_before * |base_before - base_after| /
\* |base_before|) and leaves quote_asset_amount = quote_before minus that.
\* ----------------------------------------------------------------------
C4_ProportionalCostBasis ==
    \A u \in Users : \A r \in ReduceCalls(u) :
        (r.ok /\ positions[u].base_asset_amount # 0) =>
            \E closed \in U128 :
                /\ closed * Abs(positions[u].base_asset_amount)
                       <= positions[u].quote_asset_amount * BaseChange(u, r)
                /\ (closed + 1) * Abs(positions[u].base_asset_amount)
                       > positions[u].quote_asset_amount * BaseChange(u, r)
                /\ r.market_position.quote_asset_amount =
                       positions[u].quote_asset_amount - closed

\* a partial reduce whose division truncates: part of the cost basis is
\* closed, part stays
C4_Witness ==
    \E u \in Users : \E r \in ReduceCalls(u) :
        /\ r.ok
        /\ r.market_position.base_asset_amount # 0
        /\ r.market_position.quote_asset_amount > 0
        /\ r.market_position.quote_asset_amount < positions[u].quote_asset_amount
        /\ (positions[u].quote_asset_amount * BaseChange(u, r))
               % Abs(positions[u].base_asset_amount) # 0

\* ----------------------------------------------------------------------
\* C5: a successful reduce (either variant) that brings a non-flat
\* position to exactly zero takes 1 off open_interest, as close does on
\* that position; a reduce that leaves it non-zero leaves open_interest.
\* ----------------------------------------------------------------------
C5_ReduceToZeroClosesInterest ==
    \A u \in Users : \A r \in ReduceCalls(u) :
        (r.ok /\ positions[u].base_asset_amount # 0) =>
            IF r.market_position.base_asset_amount = 0
            THEN /\ r.market.open_interest = market.open_interest - 1
                 /\ \A out \in SwapOutcomes :
                        CallClose(u, out).ok =>
                            CallClose(u, out).market.open_interest =
                                r.market.open_interest
            ELSE r.market.open_interest = market.open_interest

\* a reduce brings the position to zero where close succeeds too
C5_Witness ==
    \E u \in Users : \E r \in ReduceCalls(u) : \E out \in SwapOutcomes :
        /\ r.ok
        /\ positions[u].base_asset_amount # 0
        /\ r.market_position.base_asset_amount = 0
        /\ CallClose(u, out).ok

\* ----------------------------------------------------------------------
\* C6: increase with quote_asset_amount = 0 and
\* increase_with_base_asset_amount with base_asset_amount = 0 succeed,
\* return a zero delta (the latter returns nothing) and change no field of
\* the Market or the MarketPosition, whatever the state.
\* ----------------------------------------------------------------------
C6_ZeroIncreaseIsNoOp ==
    \A u \in Users : \A d \in Directions : \A out \in SwapOutcomes :
        /\ CallIncrease(u, d, 0, out).ok
        /\ CallIncrease(u, d, 0, out).ret = <<0>>
        /\ Untouched(u, CallIncrease(u, d, 0, out))
        /\ CallIncreaseWithBase(u, d, 0, out).ok
        /\ CallIncreaseWithBase(u, d, 0, out).ret = Unit
        /\ Untouched(u, CallIncreaseWithBase(u, d, 0, out))

\* the zero-sized calls are made on a flat slot that a non-zero call would
\* open
C6_Witness ==
    \E u \in Users : \E d \in Directions : \E out \in SwapOutcomes :
        /\ positions[u].base_asset_amount = 0
        /\ CallIncrease(u, d, 0, out).ok
        /\ CallIncreaseWithBase(u, d, 0, out).ok
        /\ CallIncrease(u, d, 1, out).ok
        /\ ~Untouched(u, CallIncrease(u, d, 1, out))
        /\ positions[u].last_cumulative_funding_rate # 0

\* ----------------------------------------------------------------------
\* C7: a successful close of a position with base amount b # 0 zeroes the
\* position's base, quote, funding rate and funding timestamp, takes 1 off
\* open_interest, takes b off the market's net base amount and off the
\* bucket of b's sign (the other bucket unchanged), and returns
\* (base_asset_value from the AMM, b).
\* ----------------------------------------------------------------------
C7_CloseResetsPosition ==
    \A u \in Users : \A out \in SwapOutcomes :
        LET r == CallClose(u, out)
            b == positions[u].base_asset_amount
        IN (r.ok /\ b # 0) =>
            /\ r.market_position.base_asset_amount = 0
            /\ r.market_position.quote_asset_amount = 0
            /\ r.market_position.last_cumulative_funding_rate = 0
            /\ r.market_position.last_funding_rate_ts = 0
            /\ r.market.open_interest = market.open_interest - 1
            /\ r.market.base_asset_amount = market.base_asset_amount - b
            /\ IF b > 0
               THEN /\ r.market.base_asset_amount_long =
                           market.base_asset_amount_long - b
                    /\ r.market.base_asset_amount_short =
                           market.base_asset_amount_short
               ELSE /\ r.market.base_asset_amount_short =
                           market.base_asset_amount_short - b
                    /\ r.market.base_asset_amount_long =
                           market.base_asset_amount_long
            /\ r.ret = <<out, b>>

\* close succeeds on a position that carries a funding snapshot, a
\* timestamp and a cost basis
C7_Witness ==
    \E u \in Users : \E out \in SwapOutcomes :
        /\ CallClose(u, out).ok
        /\ positions[u].base_asset_amount # 0
        /\ positions[u].quote_asset_amount # 0
        /\ positions[u].last_cumulative_funding_rate # 0
        /\ positions[u].last_funding_rate_ts # 0

\* close called right after the call r1 returned
CloseAfter(r1, out) ==
    close(r1.market, r1.market_position, r1.collateral, out)

\* ----------------------------------------------------------------------
\* C8: a user who opens a long position from flat with increase(Long, Q)
\* and then calls close, the AMM answering base_asset_value V to the
\* closing swap, ends with the collateral held before the open plus V - Q.
\* ----------------------------------------------------------------------
C8_OpenThenCloseRealizesPnl ==
    \A u \in Users : \A Q \in Amounts : \A out \in SwapOutcomes : \A V \in Amounts :
        LET r1 == CallIncrease(u, Long, Q, out)
            r2 == CloseAfter(r1, V)
        IN (/\ positions[u].base_asset_amount = 0
            /\ r1.ok
            /\ r1.market_position.base_asset_amount > 0
            /\ r2.ok)
           => r2.collateral = collateral[u] + (V - Q)

\* ----------------------------------------------------------------------
\* C9: over same-direction increases followed by reduces (either variant)
\* that never flip the position's sign, quote_asset_amount is at every
\* step the cost accumulated minus the cost closed so far; once the
\* reduces have brought base_asset_amount to 0 the cost closed equals the
\* cost accumulated and quote_asset_amount is 0.
\* ----------------------------------------------------------------------
C9_CostBasisLossless ==
    \A u \in Users :
        basis[u].phase # "off" =>
            /\ positions[u].quote_asset_amount = basis[u].acc - basis[u].closed
            /\ (basis[u].phase = "red" /\ positions[u].base_asset_amount = 0) =>
                   /\ basis[u].closed = basis[u].acc
                   /\ positions[u].quote_asset_amount = 0

\* two reduces, each closing part of the cost, have brought the position
\* to zero
C9_Witness ==
    \E u \in Users :
        /\ basis[u].phase = "red"
        /\ basis[u].reduces >= 2
        /\ basis[u].acc >= 2
        /\ positions[u].base_asset_amount = 0

\* The reduce requests whose base delta exists: <<delta, result>> for
\* every reduce call whose swap is answered (position.rs 222-228, 302-308)
ReduceRequests(u) ==
    {<<IF d = Long THEN out ELSE -out, CallReduce(u, d, a, out)>> :
         d \in Directions, a \in Amounts, out \in SwapOutcomes \ {AmmErr}}
    \cup {<<IF d = Long THEN a ELSE -a, CallReduceWithBase(u, d, a, out)>> :
              d \in Directions, a \in Amounts, out \in SwapOutcomes \ {AmmErr}}

\* the delta is larger than the position
OverSized(u, delta) ==
    /\ positions[u].base_asset_amount # 0
    /\ Abs(delta) > Abs(positions[u].base_asset_amount)

Opposes(u, delta) ==
    \/ positions[u].base_asset_amount > 0 /\ delta < 0
    \/ positions[u].base_asset_amount < 0 /\ delta > 0

Flipped(u, r) ==
    \/ positions[u].base_asset_amount > 0 /\ r.market_position.base_asset_amount < 0
    \/ positions[u].base_asset_amount < 0 /\ r.market_position.base_asset_amount > 0

ResultInRange(r) ==
    /\ r.market.base_asset_amount \in I128
    /\ r.market.base_asset_amount_long \in I128
    /\ r.market.base_asset_amount_short \in I128
    /\ r.market.open_interest \in U128
    /\ r.market_position.base_asset_amount \in I128
    /\ r.market_position.quote_asset_amount \in U128
    /\ r.collateral \in I128

\* the signed base amount a trade of `amount` in `direction` stands for
Signed(direction, amount) == IF direction = Long THEN amount ELSE -amount

\* ----------------------------------------------------------------------
\* C11: with i128 / u128 at a fixed width, no state and no call result
\* holds a value outside its type, a successful call leaves the exact sums
\* (nothing wrapped, nothing truncated), and a call whose base sum, quote
\* sum or quote * change product would leave the range returns an error;
\* the value handed to abs() is never the signed minimum.
\* ----------------------------------------------------------------------
C11_OverflowReturnsError ==
    /\ TypeOK
    /\ \A u \in Users : \A r \in AllCalls(u) : ResultInRange(r)
    /\ \A u \in Users : \A d \in Directions : \A a \in Amounts \ {0} :
       \A out \in SwapOutcomes \ {AmmErr} :
        LET mp == positions[u]
            inc == CallIncrease(u, d, a, out)
            incb == CallIncreaseWithBase(u, d, a, out)
            red == CallReduce(u, d, a, out)
            redb == CallReduceWithBase(u, d, a, out)
        IN /\ inc.ok => /\ inc.market_position.base_asset_amount =
                               mp.base_asset_amount + Signed(d, out)
                        /\ inc.market_position.quote_asset_amount =
                               mp.quote_asset_amount + a
                        /\ inc.market.base_asset_amount =
                               market.base_asset_amount + Signed(d, out)
           /\ incb.ok => /\ incb.market_position.base_asset_amount =
                                mp.base_asset_amount + Signed(d, a)
                         /\ incb.market_position.quote_asset_amount =
                                mp.quote_asset_amount + out
                         /\ incb.market.base_asset_amount =
                                market.base_asset_amount + Signed(d, a)
           /\ red.ok => /\ red.market_position.base_asset_amount =
                               mp.base_asset_amount + Signed(d, out)
                        /\ red.market.base_asset_amount =
                               market.base_asset_amount + Signed(d, out)
                        /\ -Signed(d, out) # IntMin
           /\ redb.ok => /\ redb.market_position.base_asset_amount =
                                mp.base_asset_amount + Signed(d, a)
                         /\ redb.market.base_asset_amount =
                                market.base_asset_amount + Signed(d, a)
                         /\ -Signed(d, a) # IntMin
           /\ (mp.base_asset_amount + Signed(d, out) \notin I128) =>
                  (~inc.ok /\ ~red.ok)
           /\ (mp.base_asset_amount + Signed(d, a) \notin I128) =>
                  (~incb.ok /\ ~redb.ok)
           /\ (mp.quote_asset_amount + a \notin U128) => ~inc.ok
           /\ (mp.quote_asset_amount + out \notin U128) => ~incb.ok
           /\ (mp.quote_asset_amount * out \notin U128) => ~red.ok
           /\ (mp.quote_asset_amount * a \notin U128) => ~redb.ok

\* the position sits at the signed maximum, where one more unit of base is
\* refused, and carries a cost basis whose product with the change of a
\* reduce no longer fits
C11_Witness ==
    \E u \in Users :
        /\ positions[u].base_asset_amount = IntMax
        /\ ~CallIncreaseWithBase(u, Long, 1, 0).ok
        /\ ~CallIncrease(u, Long, 1, 1).ok
        /\ positions[u].quote_asset_amount * IntMax > UMax
        /\ ~CallReduceWithBase(u, Short, IntMax, 0).ok

\* the slots of u that are flat
FlatSlots(u) == {i \in SlotIndexes : user_positions[u][i].base_asset_amount = 0}

\* ----------------------------------------------------------------------
\* C12: add_new_position succeeds exactly when some slot of the user is
\* flat; it then returns the lowest index of a flat slot, leaves that slot
\* with the requested market_index and every other field zero, and leaves
\* every other slot alone; when no slot is flat it fails with
\* MaxNumberOfPositions and the collection is as it was.
\* ----------------------------------------------------------------------
C12_AllocatesLowestFlatSlot ==
    \A u \in Users : \A mi \in MarketIndexes :
        LET r == add_new_position(user_positions[u], mi) IN
        /\ r.ok <=> FlatSlots(u) # {}
        /\ ~r.ok => /\ r.err = "MaxNumberOfPositions"
                    /\ r.user_positions = user_positions[u]
        /\ r.ok =>
               LET i == r.ret[1] IN
               /\ i \in FlatSlots(u)
               /\ \A j \in FlatSlots(u) : i <= j
               /\ r.user_positions[i].market_index = mi
               /\ r.user_positions[i].base_asset_amount = 0
               /\ r.user_positions[i].quote_asset_amount = 0
               /\ r.user_positions[i].last_cumulative_funding_rate = 0
               /\ r.user_positions[i].last_funding_rate_ts = 0
               /\ r.user_positions[i].open_orders = 0
               /\ \A j \in SlotIndexes \ {i} :
                      r.user_positions[j] = user_positions[u][j]

\* slot 0 is taken and slot 1, which add_new_position returns, is flat
\* and still carries the funding snapshot of its earlier use
C12_Witness ==
    \E u \in Users :
        /\ 0 \notin FlatSlots(u)
        /\ 1 \in FlatSlots(u)
        /\ user_positions[u][1].last_cumulative_funding_rate # 0
        /\ add_new_position(user_positions[u], MaxMarketIndex).ret = <<1>>

\* ----------------------------------------------------------------------
\* C13: a successful close of a non-flat slot leaves a collection on which
\* add_new_position succeeds for every market, whatever the other slots
\* hold; and the collection keeps its capacity: the slots are those of
\* SlotIndexes and at most MaxPositions of them are non-flat.
\* ----------------------------------------------------------------------
C13_CloseReleasesSlot ==
    \A u \in Users :
        /\ DOMAIN user_positions[u] = SlotIndexes
        /\ Cardinality(SlotIndexes \ FlatSlots(u)) <= MaxPositions
        /\ \A i \in SlotIndexes \ FlatSlots(u) : \A out \in SwapOutcomes :
               LET r == close(markets[user_positions[u][i].market_index],
                              user_positions[u][i], collateral[u], out)
               IN
               r.ok => \A mi \in MarketIndexes :
                           add_new_position(
                               [user_positions[u] EXCEPT ![i] = r.market_position],
                               mi).ok

\* every slot of the user is non-flat, so that add_new_position fails, and
\* close succeeds on one of them
C13_Witness ==
    \E u \in Users :
        /\ FlatSlots(u) = {}
        /\ ~add_new_position(user_positions[u], 0).ok
        /\ \E i \in SlotIndexes : \E out \in SwapOutcomes :
               close(markets[user_positions[u][i].market_index],
                     user_positions[u][i], collateral[u], out).ok

\* the positions of the market, one per holder
Holders == DOMAIN positions

RECURSIVE SumBase(_)
\* the sum of base_asset_amount over the positions of the holders in S
SumBase(S) ==
    IF S = {} THEN 0
    ELSE LET u == CHOOSE x \in S : TRUE
         IN positions[u].base_asset_amount + SumBase(S \ {u})

\* ----------------------------------------------------------------------
\* C14: in every state reached by successful engine calls, the market's
\* base_asset_amount is the sum of base_asset_amount over the positions
\* held in the market.
\* ----------------------------------------------------------------------
C14_NetIsSumOfPositions ==
    market.base_asset_amount = SumBase(Holders)

\* two traders hold positions of the same sign, so the market's net amount
\* is neither's
C14_Witness ==
    \E u \in Holders : \E v \in Holders \ {u} :
        /\ positions[u].base_asset_amount * positions[v].base_asset_amount > 0
        /\ market.base_asset_amount # positions[u].base_asset_amount

RECURSIVE SumLong(_)
\* the sum of base_asset_amount over the positions of S that are long
SumLong(S) ==
    IF S = {} THEN 0
    ELSE LET u == CHOOSE x \in S : TRUE
             b == positions[u].base_asset_amount
         IN (IF b > 0 THEN b ELSE 0) + SumLong(S \ {u})

RECURSIVE SumShort(_)
\* the sum of base_asset_amount over the positions of S that are short
SumShort(S) ==
    IF S = {} THEN 0
    ELSE LET u == CHOOSE x \in S : TRUE
             b == positions[u].base_asset_amount
         IN (IF b < 0 THEN b ELSE 0) + SumShort(S \ {u})

\* ----------------------------------------------------------------------
\* C15: in every reachable state base_asset_amount_long is the sum of the
\* positions that are long now and base_asset_amount_short the sum of
\* those that are short now; both are zero when every position is flat.
\* ----------------------------------------------------------------------
C15_BucketsFollowCurrentSign ==
    /\ market.base_asset_amount_long = SumLong(Holders)
    /\ market.base_asset_amount_short = SumShort(Holders)

\* ----------------------------------------------------------------------
\* C16: in every reachable state base_asset_amount_long >= 0 and
\* base_asset_amount_short <= 0 (the AMM answers a Long trade with a base
\* delta >= 0 and a Short trade with one <= 0).
\* ----------------------------------------------------------------------
C16_BucketSigns ==
    /\ market.base_asset_amount_long >= 0
    /\ market.base_asset_amount_short <= 0

\* the position is short while the long bucket still holds base, and the
\* short bucket holds more than the position: calls have crossed zero or
\* opposed the position
C16_Witness ==
    \E u \in Holders :
        /\ positions[u].base_asset_amount < 0
        /\ market.base_asset_amount_long > 0
        /\ market.base_asset_amount_short < positions[u].base_asset_amount

\* what close realizes on u's position when the AMM values it at V
ClosePnl(u, V) ==
    IF positions[u].base_asset_amount > 0
    THEN V - positions[u].quote_asset_amount
    ELSE positions[u].quote_asset_amount - V

\* a reduce result r that swapped quote V and brought u's position to zero
\* changed the collateral as close does at base_asset_value V
SameAsClose(u, r, V) ==
    (r.ok /\ r.market_position.base_asset_amount = 0) =>
        /\ r.collateral - collateral[u] = ClosePnl(u, V)
        /\ CallClose(u, V).ok =>
               r.collateral - collateral[u] = CallClose(u, V).collateral - collateral[u]

\* ----------------------------------------------------------------------
\* C17: a reduce (either variant) that swaps quote V and brings a long or
\* short position with cost basis C to exactly zero changes User.collateral
\* as close does when the AMM returns base_asset_value V: by V - C for a
\* long, C - V for a short.
\* ----------------------------------------------------------------------
C17_FullReduceRealizesAsClose ==
    \A u \in Users : \A d \in Directions : \A a \in Amounts :
    \A out \in SwapOutcomes \ {AmmErr} :
        positions[u].base_asset_amount # 0 =>
            /\ SameAsClose(u, CallReduce(u, d, a, out), a)
            /\ SameAsClose(u, CallReduceWithBase(u, d, a, out), out)

\* ----------------------------------------------------------------------
\* C18: every successful call, whatever its direction, amount and AMM
\* answer, leaves a position whose base_asset_amount = 0 with
\* quote_asset_amount = 0.
\* ----------------------------------------------------------------------
C18_FlatHasNoCostBasis ==
    \A u \in Users : \A r \in AllCalls(u) :
        (r.ok /\ r.market_position.base_asset_amount = 0) =>
            r.market_position.quote_asset_amount = 0

\* the funding snapshot and its timestamp are as before the call
SnapshotKept(u, r) ==
    /\ r.market_position.last_cumulative_funding_rate =
           positions[u].last_cumulative_funding_rate
    /\ r.market_position.last_funding_rate_ts = positions[u].last_funding_rate_ts

\* what a successful non-zero increase in direction d left of the snapshot
SnapshotAtOpenOnly(u, d, r) ==
    r.ok =>
        IF positions[u].base_asset_amount = 0
        THEN /\ r.market_position.last_cumulative_funding_rate =
                    (IF d = Long THEN market.amm.cumulative_funding_rate_long
                                 ELSE market.amm.cumulative_funding_rate_short)
             /\ r.market.open_interest = market.open_interest + 1
        ELSE SnapshotKept(u, r)

\* ----------------------------------------------------------------------
\* C19: a successful non-zero increase (either variant) on a flat position
\* sets last_cumulative_funding_rate to the market's cumulative funding
\* rate of the trade direction and adds 1 to open_interest; on a non-flat
\* position it leaves last_cumulative_funding_rate and
\* last_funding_rate_ts; every successful reduce (either variant) leaves
\* both.
\* ----------------------------------------------------------------------
C19_SnapshotOnlyAtOpen ==
    \A u \in Users :
        /\ \A d \in Directions : \A a \in Amounts \ {0} : \A out \in SwapOutcomes :
               /\ SnapshotAtOpenOnly(u, d, CallIncrease(u, d, a, out))
               /\ SnapshotAtOpenOnly(u, d, CallIncreaseWithBase(u, d, a, out))
        /\ \A r \in ReduceCalls(u) : r.ok => SnapshotKept(u, r)

\* a position opened short holds the short rate; an increase in the long
\* direction and a reduce succeed on it
C19_Witness ==
    \E u \in Users :
        /\ positions[u].base_asset_amount # 0
        /\ positions[u].last_cumulative_funding_rate =
               market.amm.cumulative_funding_rate_short
        /\ market.amm.cumulative_funding_rate_short #
               market.amm.cumulative_funding_rate_long
        /\ CallIncrease(u, Long, 1, 1).ok
        /\ \E r \in ReduceCalls(u) : r.ok

\* the errors of checked arithmetic: math_error!() of the engine, and the
\* arithmetic error the AMM propagates
ArithmeticErrors == {ArithmeticOverflow, AmmError}

\* ----------------------------------------------------------------------
\* C20 (as stated): on a flat position every reduce and every
\* reduce_with_base_asset_amount, for every amount and direction, returns
\* an arithmetic error and never success.
\* ----------------------------------------------------------------------
C20_FlatReduceIsArithmeticError ==
    \A u \in Users :
        positions[u].base_asset_amount = 0 =>
            \A r \in ReduceCalls(u) : ~r.ok /\ r.err \in ArithmeticErrors

\* ----------------------------------------------------------------------
\* C20 (amended): on a flat position reduce and
\* reduce_with_base_asset_amount never return success, for every amount
\* and direction.  reduce returns an arithmetic error;
\* reduce_with_base_asset_amount returns an arithmetic error too, except
\* that a base_asset_amount above the signed maximum, once the AMM swapped
\* it, returns the cast failure of cast_to_i128, which precedes the
\* cost-basis division.
\* ----------------------------------------------------------------------
C20_FlatReduceNeverSucceeds ==
    \A u \in Users :
        positions[u].base_asset_amount = 0 =>
            \A d \in Directions : \A a \in Amounts : \A out \in SwapOutcomes :
                /\ LET r == CallReduce(u, d, a, out)
                   IN ~r.ok /\ r.err \in ArithmeticErrors
                /\ LET r == CallReduceWithBase(u, d, a, out)
                   IN /\ ~r.ok
                      /\ IF out # AmmErr /\ ~cast_ok(a)
                         THEN r.err = CastFailure
                         ELSE r.err \in ArithmeticErrors

\* a position that traded and is flat again: a reduce of 1 stops at the
\* zero divisor, a reduce_with_base_asset_amount of the first amount above
\* the signed maximum stops at the cast
C20_Witness ==
    \E u \in Users :
        /\ positions[u].base_asset_amount = 0
        /\ collateral[u] # 0
        /\ CallReduce(u, Short, 1, 1).err = ArithmeticOverflow
        /\ CallReduceWithBase(u, Long, 1, 1).err = ArithmeticOverflow
        /\ CallReduceWithBase(u, Long, IntMax + 1, 0).err = CastFailure

====
